---- MODULE Spec2Model ----
(***************************************************************************)
(* News reader: the offline article cache (cacheStorage), the content      *)
(* fetch layer (newsApi) and the reading history with its statistics       *)
(* (readingHistoryService).                                                *)
(*                                                                         *)
(* Time: one unit of `now` is one hour of Date.now() (3 600 000 ms), so    *)
(* 24 * 60 * 60 * 1000 ms is 24.  An optional value (the `T | null` of the *)
(* source) is a sequence of length at most one: <<>> is null / absent,     *)
(* <<v>> is the value v.                                                   *)
(***************************************************************************)
EXTENDS Integers, Sequences, FiniteSets, TLC

VARIABLES now, entries, metadata, last, tz, history, stats, tasks, ui

vars == <<now, entries, metadata, last, tz, history, stats, tasks, ui>>

(***************************************************************************)
(* Bounds                                                                  *)
(***************************************************************************)
MaxTime == 36
MaxPage == 2
MaxPayload == 2
MaxNewUrls == 1
MaxDay == 6
TransitionDay == 5
MaxEvents == 5

(***************************************************************************)
(* Program constants                                                       *)
(***************************************************************************)
CACHE_PREFIX == "@news_cache_"
CACHE_EXPIRY_HOURS == 24
MAX_HISTORY_ITEMS == 100

\* the clock advances half a cache lifetime at a time: ages below, at and
\* above the expiry are all reached
TickSteps == {CACHE_EXPIRY_HOURS \div 2}

Categories == {"general"}
Queries == {"tesla"}
Pages == 1..MaxPage
Payloads == 1..MaxPayload

Null == <<>>
Some(v) == <<v>>

SeqRange(s) == {s[i] : i \in 1..Len(s)}

(***************************************************************************)
(* cacheStorage                                                            *)
(***************************************************************************)
\* a string is the sequence of its parts
generateCacheKey(type, value) == <<CACHE_PREFIX, type, "_">> \o value

CategoryKey(category, page) ==
  generateCacheKey("category", <<category, "_page", ToString(page)>>)

SearchKey(query, page) ==
  generateCacheKey("search", <<query, "_page", ToString(page)>>)

AllKeys ==
  {CategoryKey(c, p) : c \in Categories, p \in Pages}
    \cup {SearchKey(q, p) : q \in Queries, p \in Pages}

\* variant: entries live twice as long
maxAge_doubled == 2 * CACHE_EXPIRY_HOURS

maxAge == CACHE_EXPIRY_HOURS

\* the store as far as the cache uses it: the items under the cache keys and
\* the item under CACHE_METADATA_KEY
Store(e, m) == [entries |-> e, metadata |-> m]

getCacheMetadata(st) ==
  IF st.metadata = Null THEN <<>> ELSE st.metadata[1]

\* variant: the index row is left in place
clearCache_keepRow(st, key) ==
  Store([st.entries EXCEPT ![key] = Null],
        Some(getCacheMetadata(st)))

clearCache(st, key) ==
  LET removed == Store([st.entries EXCEPT ![key] = Null], st.metadata)
      rows == getCacheMetadata(removed)
      otherKey(m) == m.key # key
      updatedMetadata == SelectSeq(rows, otherKey)
  IN  Store(removed.entries, Some(updatedMetadata))

\* variant: the index is rewritten with the new row alone
cacheArticles_onlyNewRow(st, key, data, metaKey, t) ==
  LET cacheEntry == [data |-> data, timestamp |-> t]
      newMetadata == [key |-> metaKey, timestamp |-> t]
  IN  Store([st.entries EXCEPT ![key] = Some(cacheEntry)],
            Some(<<newMetadata>>))

\* metaKey is metadata.key; an index row is kept as its key and timestamp (the
\* category or query of the row is part of the key)
cacheArticles(st, key, data, metaKey, t) ==
  LET written == Store([st.entries EXCEPT ![key] =
                          Some([data |-> data, timestamp |-> t])],
                       st.metadata)
      existingMetadata == getCacheMetadata(written)
      newMetadata == [key |-> metaKey, timestamp |-> t]
      otherKey(m) == m.key # key
      updatedMetadata ==
        <<newMetadata>> \o SelectSeq(existingMetadata, otherKey)
  IN  Store(written.entries, Some(updatedMetadata))

\* variant: the entry expires when its age reaches maxAge
getCachedArticles_ge(st, key, t) ==
  LET cached == st.entries[key]
  IN  IF cached = Null THEN [st |-> st, data |-> Null]
      ELSE LET cacheEntry == cached[1]
               age == t - cacheEntry.timestamp
           IN  IF age >= maxAge
               THEN [st |-> clearCache(st, key), data |-> Null]
               ELSE [st |-> st, data |-> Some(cacheEntry.data)]

\* the result is the store afterwards and the value returned
getCachedArticles(st, key, t) ==
  LET cached == st.entries[key]
  IN  IF cached = Null THEN [st |-> st, data |-> Null]
      ELSE LET cacheEntry == cached[1]
               age == t - cacheEntry.timestamp
           IN  IF age > maxAge
               THEN [st |-> clearCache(st, key), data |-> Null]
               ELSE [st |-> st, data |-> Some(cacheEntry.data)]

\* variant: every clear filters the index as it was read before the loop
clearEach_snapshot(st, keys) ==
  IF keys = <<>> THEN st
  ELSE LET rows == getCacheMetadata(st)
           lastKey == keys[Len(keys)]
           otherKey(m) == m.key # lastKey
       IN  Store([k \in DOMAIN st.entries |->
                    IF k \in SeqRange(keys) THEN Null ELSE st.entries[k]],
                 Some(SelectSeq(rows, otherKey)))

RECURSIVE clearEach(_, _)
clearEach(st, keys) ==
  IF keys = <<>> THEN st
  ELSE clearEach(clearCache(st, Head(keys)), Tail(keys))

clearExpiredCache(st, t) ==
  LET rows == getCacheMetadata(st)
      isExpired(m) == t - m.timestamp > maxAge
      expired == SelectSeq(rows, isExpired)
      expiredKeys == [i \in 1..Len(expired) |-> expired[i].key]
  IN  clearEach(st, expiredKeys)

RECURSIVE removeEach(_, _)
removeEach(e, rows) ==
  IF rows = <<>> THEN e
  ELSE removeEach([e EXCEPT ![Head(rows).key] = Null], Tail(rows))

\* variant: the index is left in the store
clearAllCache_keepIndex(st) ==
  Store(removeEach(st.entries, getCacheMetadata(st)), st.metadata)

clearAllCache(st) ==
  Store(removeEach(st.entries, getCacheMetadata(st)), Null)

\* the length of the JSON text of an entry, which grows with its payload
SerializedLength(cached) == 1 + cached[1].data

RECURSIVE SumSizes(_, _)
SumSizes(st, rows) ==
  IF rows = <<>> THEN 0
  ELSE (IF st.entries[Head(rows).key] # Null
        THEN SerializedLength(st.entries[Head(rows).key]) ELSE 0)
       + SumSizes(st, Tail(rows))

\* Math.min over the timestamps of the rows; null for an empty index
OldestTimestamp(rows) ==
  IF rows = <<>> THEN Null
  ELSE Some(CHOOSE t \in {rows[i].timestamp : i \in 1..Len(rows)} :
              \A i \in 1..Len(rows) : t <= rows[i].timestamp)

getCacheStats(st) ==
  LET metadataRows == getCacheMetadata(st)
  IN  [totalEntries |-> Len(metadataRows),
       oldestCache |-> OldestTimestamp(metadataRows),
       totalSize |-> SumSizes(st, metadataRows)]

(***************************************************************************)
(* newsApi                                                                 *)
(***************************************************************************)
\* net is the outcome of the HTTP request: <<>> when it fails, <<payload>>
\* when it succeeds.  The result is the store afterwards, whether the request
\* was issued, and the value returned (outcome "ok") or the error thrown.
\* variant: the response of every page is cached
fetchPage_cacheEveryPage(st, cacheKey, page, useCache, net, t) ==
  LET first == IF useCache /\ page = 1
               THEN getCachedArticles(st, cacheKey, t)
               ELSE [st |-> st, data |-> Null]
  IN  IF first.data # Null
      THEN [st |-> first.st, netCalled |-> FALSE,
            outcome |-> "ok", data |-> first.data]
      ELSE IF net # Null
           THEN [st |-> cacheArticles(first.st, cacheKey, net[1],
                                      cacheKey, t),
                 netCalled |-> TRUE, outcome |-> "ok", data |-> net]
           ELSE LET second == IF page = 1
                              THEN getCachedArticles(first.st, cacheKey, t)
                              ELSE [st |-> first.st, data |-> Null]
                IN  IF second.data # Null
                    THEN [st |-> second.st, netCalled |-> TRUE,
                          outcome |-> "ok", data |-> second.data]
                    ELSE [st |-> second.st, netCalled |-> TRUE,
                          outcome |-> "error", data |-> Null]

fetchPage(st, cacheKey, page, useCache, net, t) ==
  LET first == IF useCache /\ page = 1
               THEN getCachedArticles(st, cacheKey, t)
               ELSE [st |-> st, data |-> Null]
  IN  IF first.data # Null
      THEN [st |-> first.st, netCalled |-> FALSE,
            outcome |-> "ok", data |-> first.data]
      ELSE IF net # Null
           THEN [st |-> IF page = 1
                        THEN cacheArticles(first.st, cacheKey, net[1],
                                           cacheKey, t)
                        ELSE first.st,
                 netCalled |-> TRUE, outcome |-> "ok", data |-> net]
           ELSE LET second == IF page = 1
                              THEN getCachedArticles(first.st, cacheKey, t)
                              ELSE [st |-> first.st, data |-> Null]
                IN  IF second.data # Null
                    THEN [st |-> second.st, netCalled |-> TRUE,
                          outcome |-> "ok", data |-> second.data]
                    ELSE [st |-> second.st, netCalled |-> TRUE,
                          outcome |-> "error", data |-> Null]

\* variant: the request goes to the network whatever is cached
getTopHeadlines_noCache(st, category, page, useCache, net, t) ==
  fetchPage(st, CategoryKey(category, page), page, FALSE, net, t)

getTopHeadlines(st, category, page, useCache, net, t) ==
  fetchPage(st, CategoryKey(category, page), page, useCache, net, t)

searchNews(st, query, page, useCache, net, t) ==
  fetchPage(st, SearchKey(query, page), page, useCache, net, t)

(***************************************************************************)
(* The cache and the fetch layer as a state machine                        *)
(***************************************************************************)
Cur == Store(entries, metadata)

\* what the last call was, what it was given and what it gave back; removed
\* is the set of keys whose entry the call deleted
Op(op, key, page, net, netCalled, outcome, data, removed) ==
  [op |-> op, key |-> key, page |-> page, net |-> net,
   netCalled |-> netCalled, outcome |-> outcome, data |-> data,
   removed |-> removed]

NoOp(op) == Op(op, <<>>, 0, Null, FALSE, "none", Null, {})

Removed(st) == {k \in AllKeys : entries[k] # Null /\ st.entries[k] = Null}

EmptyCache ==
  /\ entries = [k \in AllKeys |-> Null]
  /\ metadata = Null

CacheInit ==
  /\ now = 0
  /\ EmptyCache
  /\ last = NoOp("init")
  /\ tz = "fixed"
  /\ history = <<>>
  /\ stats = Null
  /\ tasks = <<>>
  /\ ui = Null

Tick ==
  \E d \in TickSteps :
    /\ now + d <= MaxTime
    /\ now' = now + d
    /\ last' = NoOp("tick")
    /\ UNCHANGED <<entries, metadata, tz, history, stats, tasks, ui>>

Fetched(op, key, page, net, r) ==
  /\ entries' = r.st.entries
  /\ metadata' = r.st.metadata
  /\ last' = Op(op, key, page, net, r.netCalled, r.outcome, r.data,
               Removed(r.st))
  /\ UNCHANGED <<now, tz, history, stats, tasks, ui>>

NetResults == {Null} \cup {Some(p) : p \in Payloads}

GetTopHeadlines ==
  \E category \in Categories, page \in Pages, net \in NetResults :
    Fetched("getTopHeadlines", CategoryKey(category, page), page, net,
            getTopHeadlines(Cur, category, page, TRUE, net, now))

SearchNews ==
  \E query \in Queries, page \in Pages, net \in NetResults :
    Fetched("searchNews", SearchKey(query, page), page, net,
            searchNews(Cur, query, page, TRUE, net, now))

GetCachedArticles ==
  \E key \in AllKeys :
    LET r == getCachedArticles(Cur, key, now)
    IN  /\ entries' = r.st.entries
        /\ metadata' = r.st.metadata
        /\ last' = Op("getCachedArticles", key, 0, Null, FALSE,
                      "ok", r.data, Removed(r.st))
        /\ UNCHANGED <<now, tz, history, stats, tasks, ui>>

Stored(op, key, st) ==
  /\ entries' = st.entries
  /\ metadata' = st.metadata
  /\ last' = Op(op, key, 0, Null, FALSE, "none", Null, Removed(st))
  /\ UNCHANGED <<now, tz, history, stats, tasks, ui>>

ClearCache == \E key \in AllKeys : Stored("clearCache", key, clearCache(Cur, key))

ClearExpiredCache == Stored("clearExpiredCache", <<>>, clearExpiredCache(Cur, now))

ClearAllCache == Stored("clearAllCache", <<>>, clearAllCache(Cur))

CacheNext ==
  \/ Tick
  \/ GetTopHeadlines
  \/ SearchNews
  \/ GetCachedArticles
  \/ ClearCache
  \/ ClearExpiredCache
  \/ ClearAllCache

Spec == CacheInit /\ [][CacheNext]_vars

(***************************************************************************)
(* Properties of the cache and the fetch layer                             *)
(***************************************************************************)
FetchOps == {"getTopHeadlines", "searchNews"}

Rows == getCacheMetadata(Cur)
IndexedKeys == {Rows[i].key : i \in 1..Len(Rows)}
StoredKeys == {k \in AllKeys : entries[k] # Null}

\* the step is a page-1 fetch whose request failed while an entry for its key
\* was stored
FailedFetchOverEntry ==
  /\ last'.op \in FetchOps
  /\ last'.page = 1
  /\ last'.netCalled
  /\ last'.net = Null
  /\ entries[last'.key] # Null

\* C1: a page-1 fetch whose network request fails returns the cached payload
\* when the entry for its key is older than 24 hours, and raises only when no
\* entry of any age is stored for the key.
C1_StaleFallback ==
  [][/\ (FailedFetchOverEntry /\ now - entries[last'.key][1].timestamp > maxAge)
          => (/\ last'.outcome = "ok"
              /\ last'.data = Some(entries[last'.key][1].data))
     /\ (last'.op \in FetchOps /\ last'.page = 1 /\ last'.outcome = "error")
          => entries[last'.key] = Null]_vars

\* the step is a successful page-1 network fetch: the put
PutStep ==
  /\ last'.op \in FetchOps
  /\ last'.page = 1
  /\ last'.netCalled
  /\ last'.net # Null

\* the step is a get of a key that holds an entry
GetStep ==
  /\ last'.op = "getCachedArticles"
  /\ entries[last'.key] # Null

\* C2 as stated: an entry put at time T is returned by every get before T+24h
\* and reported absent by every get at or after T+24h.
C2_TTL_AsStated ==
  [][/\ PutStep => entries'[last'.key] =
                     Some([data |-> last'.net[1], timestamp |-> now])
     /\ GetStep =>
          IF now < entries[last'.key][1].timestamp + maxAge
          THEN last'.data = Some(entries[last'.key][1].data)
          ELSE last'.data = Null]_vars

\* C2 amended: an entry put at time T is returned by every get up to and
\* including T+24h and reported absent by every get after T+24h.
C2_TTL ==
  [][/\ PutStep => entries'[last'.key] =
                     Some([data |-> last'.net[1], timestamp |-> now])
     /\ GetStep =>
          IF now <= entries[last'.key][1].timestamp + maxAge
          THEN last'.data = Some(entries[last'.key][1].data)
          ELSE last'.data = Null]_vars

\* a get at exactly T+24h returned the entry, and the entry is still stored
C2_Witness ==
  /\ last.op = "getCachedArticles"
  /\ last.data # Null
  /\ entries[last.key] # Null
  /\ now = entries[last.key][1].timestamp + maxAge

\* the key of page 1 of the request whose key is k
PageOneKey(k) == [k EXCEPT ![Len(k)] = "1"]

\* C3: a fetch of a page greater than 1 leaves the entries and the index as
\* they were, issues the request, and returns the response or raises according
\* to the network result alone.
C3_PageOneOnly ==
  [][(last'.op \in FetchOps /\ last'.page > 1)
       => /\ entries' = entries
          /\ metadata' = metadata
          /\ last'.netCalled
          /\ IF last'.net # Null
             THEN last'.outcome = "ok" /\ last'.data = last'.net
             ELSE last'.outcome = "error"]_vars

\* a fetch of page 2 raised although page 1 of the same request is cached
C3_Witness ==
  /\ last.op \in FetchOps
  /\ last.page > 1
  /\ last.outcome = "error"
  /\ entries[PageOneKey(last.key)] # Null

\* C4: the keys listed in the index are the keys that hold an entry.
C4_IndexConsistency == IndexedKeys = StoredKeys

\* an expiry sweep or a clear of one key deleted an entry and left another
C4_Witness ==
  /\ last.op \in {"clearExpiredCache", "clearCache", "getCachedArticles"}
  /\ last.removed # {}
  /\ StoredKeys # {}

\* C9: with the clock held, a second clearExpired directly after the first
\* changes neither the entries nor the index.
C9_ClearExpiredIdempotent ==
  [][last'.op = "clearExpiredCache"
       => clearExpiredCache(Store(entries', metadata'), now')
            = Store(entries', metadata')]_vars

\* a clearExpired deleted two expired entries
C9_Witness ==
  /\ last.op = "clearExpiredCache"
  /\ Cardinality(last.removed) >= 2

\* the rows of the index m that are not for key k
OtherRows(m, k) ==
  LET otherKey(r) == r.key # k
  IN  SelectSeq(getCacheMetadata(Store(entries, m)), otherKey)

\* the rows of the index m that are for key k
RowsFor(m, k) ==
  LET sameKey(r) == r.key = k
  IN  SelectSeq(getCacheMetadata(Store(entries, m)), sameKey)

\* C15: a page-1 fetch whose network request failed leaves the entry and the
\* index row of its key exactly as they were, whatever the age of the entry.
C15_FallbackReadOnly ==
  [][(last'.op \in FetchOps /\ last'.page = 1 /\ last'.netCalled
        /\ last'.net = Null)
       => /\ entries'[last'.key] = entries[last'.key]
          /\ RowsFor(metadata', last'.key) = RowsFor(metadata, last'.key)]_vars

\* C16: a get that finds an entry older than 24 hours returns absent and
\* removes the entry and the index row of its key; the entries and rows of
\* the other keys stay as they were.
C16_ExpiryOnRead ==
  [][(GetStep /\ now - entries[last'.key][1].timestamp > maxAge)
       => /\ last'.data = Null
          /\ entries'[last'.key] = Null
          /\ RowsFor(metadata', last'.key) = <<>>
          /\ \A k \in AllKeys \ {last'.key} : entries'[k] = entries[k]
          /\ OtherRows(metadata', last'.key)
               = OtherRows(metadata, last'.key)]_vars

\* a get deleted the expired entry of its key while another key stays stored
\* and indexed
C16_Witness ==
  /\ last.op = "getCachedArticles"
  /\ last.data = Null
  /\ last.removed = {last.key}
  /\ \E k \in AllKeys \ {last.key} : entries[k] # Null /\ k \in IndexedKeys

\* C17: a page-1 fetch that finds an entry younger than 24 hours returns the
\* payload of the entry, issues no network request and writes nothing.
C17_FreshShortCircuit ==
  [][(/\ last'.op \in FetchOps
      /\ last'.page = 1
      /\ entries[last'.key] # Null
      /\ now - entries[last'.key][1].timestamp < maxAge)
       => /\ ~last'.netCalled
          /\ last'.outcome = "ok"
          /\ last'.data = Some(entries[last'.key][1].data)
          /\ entries' = entries
          /\ metadata' = metadata]_vars

\* a page-1 fetch returned the cached payload although the network had a
\* different payload to give
C17_Witness ==
  /\ last.op \in FetchOps
  /\ last.page = 1
  /\ ~last.netCalled
  /\ last.data # Null
  /\ last.net # Null
  /\ last.net # last.data
  /\ now - entries[last.key][1].timestamp < maxAge

FreshHit ==
  /\ last'.op \in FetchOps
  /\ ~last'.netCalled
  /\ last'.data # Null

\* C21: the time an entry was stored at changes only through a put, a fetch
\* answered from the cache leaves the entries and the index as they were, and
\* the payload it returns was stored at most 24 hours before the read.
C21_ReadsKeepFreshness ==
  [][/\ \A k \in AllKeys :
          (entries'[k] # Null /\ entries'[k] # entries[k])
            => /\ PutStep
               /\ last'.key = k
               /\ entries'[k][1].timestamp = now
     /\ FreshHit
          => /\ entries' = entries
             /\ metadata' = metadata
             /\ entries[last'.key] # Null
             /\ last'.data = Some(entries[last'.key][1].data)
             /\ now - entries[last'.key][1].timestamp
                  <= CACHE_EXPIRY_HOURS]_vars

\* a fetch was answered from an entry stored exactly 24 hours before
C21_Witness ==
  /\ last.op \in FetchOps
  /\ ~last.netCalled
  /\ last.data # Null
  /\ entries[last.key] # Null
  /\ now - entries[last.key][1].timestamp = CACHE_EXPIRY_HOURS

\* C24: after clearAllCache the index is empty, no key holds an entry, and
\* getCacheStats reports no entries and no oldest timestamp.
C24_ClearAllEmpties ==
  [][last'.op = "clearAllCache"
       => /\ getCacheMetadata(Store(entries', metadata')) = <<>>
          /\ \A k \in AllKeys : entries'[k] = Null
          /\ getCacheStats(Store(entries', metadata')).totalEntries = 0
          /\ getCacheStats(Store(entries', metadata')).oldestCache = Null]_vars

\* a clearAllCache deleted the entries of two keys
C24_Witness ==
  /\ last.op = "clearAllCache"
  /\ Cardinality(last.removed) >= 2
  /\ StoredKeys = {}

(***************************************************************************)
(* The local calendar of the device                                        *)
(***************************************************************************)
\* The Date getters used by getDateKey and getReadingByHour read local time.
\* A zone is "fixed" (a constant UTC offset), "spring" (the clocks go forward
\* one hour at TransitionAt: that day has 23 hours) or "fall" (the clocks go
\* back one hour at TransitionAt: that day has 25 hours).
Zones == {"fixed", "spring", "fall"}

\* 02:00 local standard time of day TransitionDay
TransitionAt == 24 * TransitionDay + 2

UtcOffset(z, t) ==
  IF z = "spring" THEN (IF t >= TransitionAt THEN 1 ELSE 0)
  ELSE IF z = "fall" THEN (IF t < TransitionAt THEN 1 ELSE 0)
  ELSE 0

LocalTime(z, t) == t + UtcOffset(z, t)

\* the YYYY-MM-DD key of the local day of t, as the number of that day; the
\* keys are zero padded, so their string order is the order of the numbers
getDateKey(z, t) == LocalTime(z, t) \div 24

\* Date.prototype.getHours
getHours(z, t) == LocalTime(z, t) % 24

\* new Date("YYYY-MM-DD").getTime(): a date-only string is read as midnight
\* UTC of that date
ParseDateKey(k) == 24 * k

(***************************************************************************)
(* readingHistoryService                                                   *)
(***************************************************************************)
\* article.source?.name: articles with an even URL carry no source name
SourceName(url) == IF url % 2 = 1 THEN Some("Reuters") ELSE Null

HistoryItem(url, readAt, readingTime, category) ==
  [url |-> url, readAt |-> readAt, readingTime |-> readingTime,
   category |-> category,
   source |-> IF SourceName(url) # Null THEN SourceName(url)[1]
              ELSE "Unknown"]

\* Array.prototype.findIndex, counting from 1: 0 when no item has the URL
findIndex(h, url) ==
  LET found == {i \in 1..Len(h) : h[i].url = url}
  IN  IF found # {}
      THEN CHOOSE i \in found : \A j \in found : i <= j
      ELSE 0

\* history.splice(i, 1)
RemoveAt(h, i) == SubSeq(h, 1, i - 1) \o SubSeq(h, i + 1, Len(h))

\* variant: an item already held for the URL is not taken out
addToHistory_noDedupe(h, url, readingTime, category, t) ==
  LET unshifted == <<HistoryItem(url, t, readingTime, category)>> \o h
  IN  IF Len(unshifted) > MAX_HISTORY_ITEMS
      THEN SubSeq(unshifted, 1, MAX_HISTORY_ITEMS)
      ELSE unshifted

\* variant: the cap keeps the last MAX_HISTORY_ITEMS items
addToHistory_keepLast(h, url, readingTime, category, t) ==
  LET existingIndex == findIndex(h, url)
      historyItem == HistoryItem(url, t, readingTime, category)
      removed == IF existingIndex # 0 THEN RemoveAt(h, existingIndex) ELSE h
      unshifted == <<historyItem>> \o removed
  IN  IF Len(unshifted) > MAX_HISTORY_ITEMS
      THEN SubSeq(unshifted, Len(unshifted) - MAX_HISTORY_ITEMS + 1,
                  Len(unshifted))
      ELSE unshifted

addToHistory(h, url, readingTime, category, t) ==
  LET existingIndex == findIndex(h, url)
      historyItem == HistoryItem(url, t, readingTime, category)
      removed == IF existingIndex # 0 THEN RemoveAt(h, existingIndex) ELSE h
      unshifted == <<historyItem>> \o removed
  IN  IF Len(unshifted) > MAX_HISTORY_ITEMS
      THEN SubSeq(unshifted, 1, MAX_HISTORY_ITEMS)
      ELSE unshifted

\* variant: the newest event is removed, whatever its URL
removeFromHistory_newest(h, articleUrl) ==
  IF h = <<>> THEN h ELSE Tail(h)

removeFromHistory(h, articleUrl) ==
  LET otherUrl(item) == item.url # articleUrl
  IN  SelectSeq(h, otherUrl)

hasBeenRead(h, articleUrl) ==
  \E i \in 1..Len(h) : h[i].url = articleUrl

\* item?.readingTime || 0
getReadingTime(h, articleUrl) ==
  LET index == findIndex(h, articleUrl)
  IN  IF index = 0 THEN 0 ELSE h[index].readingTime

clearHistory(h) == <<>>

\* a quotient of the source that is not rounded: num / den
Ratio(num, den) == [num |-> num, den |-> den]

\* history.reduce((sum, item) => sum + item.readingTime, 0)
RECURSIVE SumReadingTime(_)
SumReadingTime(h) ==
  IF h = <<>> THEN 0
  ELSE IF Len(h) = 1 THEN h[1].readingTime
  ELSE LET half == Len(h) \div 2
       IN  SumReadingTime(SubSeq(h, 1, half))
             + SumReadingTime(SubSeq(h, half + 1, Len(h)))

\* variant: an event whose age is the window is counted
CountWithin_inclusive(h, t, window) ==
  Cardinality({i \in 1..Len(h) : t - h[i].readAt <= window})

\* history.filter(item => now - item.readAt < window).length
CountWithin(h, t, window) ==
  Cardinality({i \in 1..Len(h) : t - h[i].readAt < window})

\* the counts of an object built by  o[k] = (o[k] || 0) + 1
Breakdown(h, field) ==
  [k \in {h[i][field] : i \in 1..Len(h)} |->
     Cardinality({i \in 1..Len(h) : h[i][field] = k})]

\* Object.entries(b).sort(([, a], [, b]) => b - a)[0]?.[0] || fallback: the
\* entries come in insertion order and the sort is stable, so the first entry
\* is the key of greatest count that was inserted first
Favorite(h, field, fallback) ==
  IF h = <<>> THEN fallback
  ELSE LET b == Breakdown(h, field)
           first(k) == CHOOSE i \in 1..Len(h) :
                         /\ h[i][field] = k
                         /\ \A j \in 1..(i - 1) : h[j][field] # k
       IN  CHOOSE k \in DOMAIN b :
             \A o \in DOMAIN b :
               \/ b[o] < b[k]
               \/ (b[o] = b[k] /\ first(k) <= first(o))

\* Array.from(set).sort().reverse()
RECURSIVE SortDescending(_)
SortDescending(S) ==
  IF S = {} THEN <<>>
  ELSE LET m == CHOOSE x \in S : \A y \in S : y <= x
       IN  <<m>> \o SortDescending(S \ {m})

ReadingDays(z, h) == {getDateKey(z, h[i].readAt) : i \in 1..Len(h)}

\* the loop of the current streak: i is the loop index (counted from 0 as in
\* the source), checkDate the instant it steps back by 24 hours
RECURSIVE StreakWalk(_, _, _, _, _)
StreakWalk(z, sortedDays, i, checkDate, currentStreak) ==
  IF i < Len(sortedDays)
  THEN LET stepped == checkDate - 24
           checkKey == getDateKey(z, stepped)
       IN  IF checkKey \in SeqRange(sortedDays)
           THEN StreakWalk(z, sortedDays, i + 1, stepped, currentStreak + 1)
           ELSE currentStreak
  ELSE currentStreak

CurrentStreakOf(z, sortedDays, t) ==
  LET today == getDateKey(z, t)
      yesterday == getDateKey(z, t - 24)
      days == SeqRange(sortedDays)
  IN  IF today \in days \/ yesterday \in days
      THEN StreakWalk(z, sortedDays, 1,
                      IF today \in days THEN t ELSE t - 24, 1)
      ELSE 0

Max(a, b) == IF a >= b THEN a ELSE b

\* the loop of the longest streak, i counted from 1
RECURSIVE StreakScan(_, _, _, _)
StreakScan(sortedDays, i, longestStreak, tempStreak) ==
  IF i <= Len(sortedDays) - 1
  THEN LET date1 == ParseDateKey(sortedDays[i])
           date2 == ParseDateKey(sortedDays[i + 1])
           dayDiff == (date1 - date2) \div 24
       IN  IF dayDiff = 1
           THEN StreakScan(sortedDays, i + 1, longestStreak, tempStreak + 1)
           ELSE StreakScan(sortedDays, i + 1,
                           Max(longestStreak, tempStreak), 1)
  ELSE Max(longestStreak, tempStreak)

\* variant: the run still open when the loop ends is not counted
RECURSIVE StreakScan_noFinal(_, _, _, _)
StreakScan_noFinal(sortedDays, i, longestStreak, tempStreak) ==
  IF i <= Len(sortedDays) - 1
  THEN LET date1 == ParseDateKey(sortedDays[i])
           date2 == ParseDateKey(sortedDays[i + 1])
           dayDiff == (date1 - date2) \div 24
       IN  IF dayDiff = 1
           THEN StreakScan_noFinal(sortedDays, i + 1, longestStreak,
                                   tempStreak + 1)
           ELSE StreakScan_noFinal(sortedDays, i + 1,
                                   Max(longestStreak, tempStreak), 1)
  ELSE longestStreak

\* variant of LongestStreakOf that uses StreakScan_noFinal
LongestStreakOf_noFinal(sortedDays) == StreakScan_noFinal(sortedDays, 1, 0, 1)

LongestStreakOf(sortedDays) == StreakScan(sortedDays, 1, 0, 1)

calculateStreaks(z, h, t) ==
  IF Len(h) = 0 THEN [current |-> 0, longest |-> 0]
  ELSE LET sortedDays == SortDescending(ReadingDays(z, h))
       IN  [current |-> CurrentStreakOf(z, sortedDays, t),
            longest |-> LongestStreakOf(sortedDays)]

getReadingByDay(z, h, t) ==
  LET sevenDaysAgo == t - 7 * 24
      counted == {i \in 1..Len(h) : h[i].readAt > sevenDaysAgo}
      filled == {getDateKey(z, t - i * 24) : i \in 0..6}
  IN  [k \in {getDateKey(z, h[i].readAt) : i \in counted} \cup filled |->
         Cardinality({i \in counted : getDateKey(z, h[i].readAt) = k})]

getReadingByHour(z, h) ==
  [hour \in 0..23 |->
     Cardinality({i \in 1..Len(h) : getHours(z, h[i].readAt) = hour})]

getEmptyStats ==
  [totalArticlesRead |-> 0,
   totalReadingTime |-> Ratio(0, 1),
   averageReadingTime |-> Ratio(0, 1),
   currentStreak |-> 0,
   longestStreak |-> 0,
   articlesReadToday |-> 0,
   articlesReadThisWeek |-> 0,
   articlesReadThisMonth |-> 0,
   favoriteCategory |-> "None",
   favoriteSource |-> "None",
   categoriesBreakdown |-> <<>>,
   sourcesBreakdown |-> <<>>,
   readingByDay |-> <<>>,
   readingByHour |-> <<>>]

FullStats(z, h, t) ==
  LET oneDayMs == 24
      oneWeekMs == 7 * oneDayMs
      oneMonthMs == 30 * oneDayMs
      totalArticlesRead == Len(h)
      streaks == calculateStreaks(z, h, t)
  IN  [totalArticlesRead |-> totalArticlesRead,
       totalReadingTime |-> Ratio(SumReadingTime(h), 60),
       averageReadingTime |->
         Ratio(SumReadingTime(h), 60 * totalArticlesRead),
       currentStreak |-> streaks.current,
       longestStreak |-> streaks.longest,
       articlesReadToday |-> CountWithin(h, t, oneDayMs),
       articlesReadThisWeek |-> CountWithin(h, t, oneWeekMs),
       articlesReadThisMonth |-> CountWithin(h, t, oneMonthMs),
       favoriteCategory |-> Favorite(h, "category", "general"),
       favoriteSource |-> Favorite(h, "source", "Unknown"),
       categoriesBreakdown |-> Breakdown(h, "category"),
       sourcesBreakdown |-> Breakdown(h, "source"),
       readingByDay |-> getReadingByDay(z, h, t),
       readingByHour |-> getReadingByHour(z, h)]

\* variant: no early return for the empty history
getStats_noEmptyBranch(z, h, t) == FullStats(z, h, t)

getStats(z, h, t) ==
  IF Len(h) = 0 THEN getEmptyStats ELSE FullStats(z, h, t)

(***************************************************************************)
(* The reading history as a state machine                                  *)
(***************************************************************************)
ReadingTimes == {5, 90}

\* the URLs recorded: the newest of a full history, and URLs that a full
\* history does not hold
AddUrls == MAX_HISTORY_ITEMS..(MAX_HISTORY_ITEMS + MaxNewUrls)

\* the history after URLs 1..n were recorded in this order at time 0
InitialLog(n) ==
  [i \in 1..n |-> HistoryItem(n + 1 - i, 0, 5, "general")]

InitialLengths == {0, MAX_HISTORY_ITEMS - 1, MAX_HISTORY_ITEMS}

\* stats is the snapshot returned by the last call when that call was getStats.
\* last is what the last call was and what it was given; existing is the item the
\* history held for the URL before the call, dropped the number of items the
\* cap cut off
HOp(op, url, readingTime, existing, dropped) ==
  [op |-> op, url |-> url, readingTime |-> readingTime,
   existing |-> existing, dropped |-> dropped]

HistoryInit ==
  /\ now = 0
  /\ EmptyCache
  /\ last = HOp("init", 0, 0, Null, 0)
  /\ tz = "fixed"
  /\ history \in {InitialLog(n) : n \in InitialLengths}
  /\ stats = Null
  /\ tasks = <<>>
  /\ ui = Null

HTick ==
  \E d \in TickSteps :
    /\ now + d <= MaxTime
    /\ now' = now + d
    /\ last' = HOp("tick", 0, 0, Null, 0)
    /\ stats' = Null
    /\ UNCHANGED <<tz, history, entries, metadata, tasks, ui>>

AddToHistory ==
  \E url \in AddUrls, readingTime \in ReadingTimes, category \in Categories :
    LET existingIndex == findIndex(history, url)
        after == addToHistory(history, url, readingTime, category, now)
    IN  /\ history' = after
        /\ last' = HOp("addToHistory", url, readingTime,
                       IF existingIndex # 0
                       THEN Some(history[existingIndex]) ELSE Null,
                       Len(removeFromHistory(history, url)) + 1 - Len(after))
        /\ stats' = Null
        /\ UNCHANGED <<now, tz, entries, metadata, tasks, ui>>

RemoveFromHistory ==
  \E url \in AddUrls :
    /\ history' = removeFromHistory(history, url)
    /\ last' = HOp("removeFromHistory", url, 0, Null, 0)
    /\ stats' = Null
    /\ UNCHANGED <<now, tz, entries, metadata, tasks, ui>>

ClearHistory ==
  /\ history' = clearHistory(history)
  /\ last' = HOp("clearHistory", 0, 0, Null, 0)
  /\ stats' = Null
  /\ UNCHANGED <<now, tz, entries, metadata, tasks, ui>>

GetStats ==
  /\ stats' = Some(getStats(tz, history, now))
  /\ last' = HOp("getStats", 0, 0, Null, 0)
  /\ UNCHANGED <<now, tz, history, entries, metadata, tasks, ui>>

HistoryNext ==
  \/ HTick
  \/ AddToHistory
  \/ RemoveFromHistory
  \/ ClearHistory
  \/ GetStats

SpecHistory == HistoryInit /\ [][HistoryNext]_vars

(***************************************************************************)
(* The statistics as a function of the history, the clock and the zone     *)
(***************************************************************************)
\* local hours at which items were read, and at which statistics are asked
EventHours == {9, 21}
NowHours == {0, 12, 23}

Instants == 0..(24 * (MaxDay + 1) + 1)

EventTimes(z) ==
  {t \in Instants : getDateKey(z, t) \in 0..MaxDay /\ getHours(z, t) \in EventHours}

StatsNows(z) ==
  {t \in Instants : /\ getDateKey(z, t) \in (MaxDay - 1)..MaxDay
                    /\ getHours(z, t) \in NowHours}

\* the history after one article was recorded at each instant of T
LogOf(T) ==
  LET times == SortDescending(T)
  IN  [i \in 1..Len(times) |->
         HistoryItem(Len(times) + 1 - i, times[i], 5, "general")]

StatsInit ==
  /\ EmptyCache
  /\ last = HOp("init", 0, 0, Null, 0)
  /\ tz \in Zones
  /\ now \in StatsNows(tz)
  /\ \E T \in SUBSET EventTimes(tz) :
       /\ Cardinality(T) <= MaxEvents
       /\ \A t \in T : t <= now
       /\ history = LogOf(T)
  /\ stats = Null
  /\ tasks = <<>>
  /\ ui = Null

StatsNext == GetStats

SpecStats == StatsInit /\ [][StatsNext]_vars

(***************************************************************************)
(* Properties of the reading history and its statistics                    *)
(***************************************************************************)
Days == ReadingDays(tz, history)
Today == getDateKey(tz, now)

\* the number of consecutive days of Days counted backward from day d
RunBackFrom(d) ==
  CHOOSE n \in 0..Cardinality(Days) :
    /\ \A k \in 0..(n - 1) : d - k \in Days
    /\ d - n \notin Days

\* the number of consecutive days of Days counted forward from day d
RunForwardFrom(d) ==
  CHOOSE n \in 0..Cardinality(Days) :
    /\ \A k \in 0..(n - 1) : d + k \in Days
    /\ d + n \notin Days

LongestRun ==
  IF Days = {} THEN 0
  ELSE LET runs == {RunForwardFrom(d) : d \in Days}
       IN  CHOOSE n \in runs : \A m \in runs : m <= n

Snapshot == stats[1]

StatsReturned == last.op = "getStats" /\ stats # Null

\* C5: recording a URL that the history already holds leaves one event with
\* that URL, at the head, with the time and duration of the later recording.
C5_EventDedupe ==
  [][last'.op = "addToHistory"
       => /\ Cardinality({i \in 1..Len(history') :
                            history'[i].url = last'.url}) = 1
          /\ history'[1].url = last'.url
          /\ history'[1].readAt = now
          /\ history'[1].readingTime = last'.readingTime]_vars

\* a URL was recorded again, later and with another duration
C5_Witness ==
  /\ last.op = "addToHistory"
  /\ last.existing # Null
  /\ last.existing[1].readAt < history[1].readAt
  /\ last.existing[1].readingTime # history[1].readingTime
  /\ Len(history) > 1

\* C6: currentStreak is 0 when neither today nor yesterday has an event, and
\* otherwise the number of consecutive calendar days with an event counted
\* backward from today when today has an event and from yesterday otherwise.
C6_CurrentStreak ==
  StatsReturned =>
    Snapshot.currentStreak =
      IF Today \in Days THEN RunBackFrom(Today)
      ELSE IF Today - 1 \in Days THEN RunBackFrom(Today - 1)
      ELSE 0

\* C7: longestStreak of a non-empty history is the length of the longest run
\* of consecutive calendar days among the days that have an event; both
\* streaks of the empty history are 0.
C7_LongestStreak ==
  StatsReturned =>
    /\ history # <<>> => Snapshot.longestStreak = LongestRun
    /\ history = <<>> => /\ Snapshot.currentStreak = 0
                         /\ Snapshot.longestStreak = 0

\* the longest run is the one that ends at the oldest day, and a gap of more
\* than one day separates it from a later day
C7_Witness ==
  /\ StatsReturned
  /\ Snapshot.longestStreak >= 2
  /\ \E oldest \in Days :
       /\ \A d \in Days : oldest <= d
       /\ RunForwardFrom(oldest) = Snapshot.longestStreak
       /\ \A d \in Days : d # oldest => RunForwardFrom(d) < Snapshot.longestStreak
       /\ \E d \in Days : d > oldest + Snapshot.longestStreak + 1

\* C8: the snapshot of the empty history has every count 0, no quotient with
\* divisor 0, and favoriteCategory "None".
C8_EmptySnapshot ==
  (StatsReturned /\ history = <<>>) =>
    /\ Snapshot.totalArticlesRead = 0
    /\ Snapshot.totalReadingTime.num = 0
    /\ Snapshot.totalReadingTime.den # 0
    /\ Snapshot.averageReadingTime.num = 0
    /\ Snapshot.averageReadingTime.den # 0
    /\ Snapshot.articlesReadToday = 0
    /\ Snapshot.articlesReadThisWeek = 0
    /\ Snapshot.articlesReadThisMonth = 0
    /\ Snapshot.currentStreak = 0
    /\ Snapshot.longestStreak = 0
    /\ Snapshot.favoriteCategory = "None"

\* statistics were asked of the empty history
C8_Witness ==
  /\ StatsReturned
  /\ history = <<>>

\* the last 7 calendar days, today included
LastSevenDays == (Today - 6)..Today

EventsOnDay(d) ==
  {i \in 1..Len(history) : getDateKey(tz, history[i].readAt) = d}

EventsInHour(hour) ==
  {i \in 1..Len(history) : getHours(tz, history[i].readAt) = hour}

\* C25: in the snapshot of any history, readingByDay has a key for each of
\* the last 7 calendar days and readingByHour has a key for each hour 0..23,
\* with value 0 where the day or the hour has no event.
C25_ZeroFilledBuckets ==
  StatsReturned =>
    /\ \A d \in LastSevenDays :
         /\ d \in DOMAIN Snapshot.readingByDay
         /\ EventsOnDay(d) = {} => Snapshot.readingByDay[d] = 0
    /\ \A hour \in 0..23 :
         /\ hour \in DOMAIN Snapshot.readingByHour
         /\ EventsInHour(hour) = {} => Snapshot.readingByHour[hour] = 0

\* C26: in the snapshot of a non-empty history the keys of readingByDay are
\* the last 7 calendar days and no other day.
C26_SevenDayKeys ==
  (StatsReturned /\ history # <<>>) =>
    /\ DOMAIN Snapshot.readingByDay \subseteq LastSevenDays
    /\ Cardinality(DOMAIN Snapshot.readingByDay) = 7

\* C27: in every snapshot currentStreak <= longestStreak, and longestStreak is
\* at most the number of calendar days that have an event.
C27_StreakOrdering ==
  StatsReturned =>
    /\ Snapshot.currentStreak <= Snapshot.longestStreak
    /\ Snapshot.longestStreak <= Cardinality(Days)

\* C29: removeFromHistory of a URL deletes the event with that URL and
\* leaves the other events and their order as they were, changes nothing when
\* no event has the URL, and afterwards hasBeenRead is false and
\* getReadingTime is 0 for the URL.
C29_RemoveExact ==
  [][last'.op = "removeFromHistory"
       => LET index == findIndex(history, last'.url)
          IN  /\ index = 0 => history' = history
              /\ index # 0 =>
                   history' = SubSeq(history, 1, index - 1)
                                \o SubSeq(history, index + 1, Len(history))
              /\ ~hasBeenRead(history', last'.url)
              /\ getReadingTime(history', last'.url) = 0]_vars

\* the event of a URL was removed from between the newest event and the
\* older ones
C29_Witness ==
  /\ last.op = "removeFromHistory"
  /\ last.url = MAX_HISTORY_ITEMS
  /\ Len(history) = MAX_HISTORY_ITEMS - 1
  /\ history[1].url = MAX_HISTORY_ITEMS + 1
  /\ history[2].url = MAX_HISTORY_ITEMS - 1
  /\ history[Len(history)].url = 2

\* C10: the history never holds more than MAX_HISTORY_ITEMS events; a
\* recording puts the new event at the head, keeps the other events in their
\* order behind it, and drops from the tail only what exceeds the cap.
C10_LogCap ==
  [][/\ Len(history') <= MAX_HISTORY_ITEMS
     /\ last'.op = "addToHistory"
          => LET others == removeFromHistory(history, last'.url)
                 kept == IF Len(others) + 1 > MAX_HISTORY_ITEMS
                         THEN MAX_HISTORY_ITEMS ELSE Len(others) + 1
             IN  /\ Len(history') = kept
                 /\ history'[1].url = last'.url
                 /\ history'[1].readAt = now
                 /\ Tail(history') = SubSeq(others, 1, kept - 1)]_vars

\* a recording into a full history dropped the event at the tail
C10_Witness ==
  /\ last.op = "addToHistory"
  /\ last.dropped = 1
  /\ Len(history) = MAX_HISTORY_ITEMS
  /\ history[1].url = last.url

(***************************************************************************)
(* Storage failures: one AsyncStorage call of the handler may reject        *)
(***************************************************************************)
MaxUrls == 2

CACHE_METADATA_KEY == <<"@news_cache_metadata">>
HISTORY_STORAGE_KEY == <<"@reading_history">>

\* the keys fetchPage writes entries under
PageOneKeys ==
  {CategoryKey(c, 1) : c \in Categories} \cup {SearchKey(q, 1) : q \in Queries}

StorageOps == {"getItem", "setItem", "removeItem"}
StorageKeys == PageOneKeys \cup {CACHE_METADATA_KEY, HISTORY_STORAGE_KEY}

\* the AsyncStorage call that rejects during a handler; none rejects under
\* NoFault
NoFault == [op |-> "none", key |-> <<>>]
Faults == {NoFault} \cup [op : StorageOps, key : StorageKeys]
Fails(fault, op, key) == fault.op = op /\ fault.key = key

\* the result of a storage operation run under a fault: the store afterwards,
\* whether a storage call rejected inside it, and whether it threw to its
\* caller
Ran(st, failed, raised) == [st |-> st, failed |-> failed, raised |-> raised]

\* getCacheMetadata catches the rejection of its read and returns []
readCacheMetadata(st, fault) ==
  IF Fails(fault, "getItem", CACHE_METADATA_KEY)
  THEN [rows |-> <<>>, failed |-> TRUE]
  ELSE [rows |-> getCacheMetadata(st), failed |-> FALSE]

cacheArticlesUnder(st, key, data, metaKey, t, fault) ==
  IF Fails(fault, "setItem", key) THEN Ran(st, TRUE, FALSE)
  ELSE LET written == [st.entries EXCEPT ![key] =
                         Some([data |-> data, timestamp |-> t])]
           existingMetadata == readCacheMetadata(st, fault)
           newMetadata == [key |-> metaKey, timestamp |-> t]
           otherKey(m) == m.key # key
           updatedMetadata ==
             <<newMetadata>> \o SelectSeq(existingMetadata.rows, otherKey)
       IN  IF Fails(fault, "setItem", CACHE_METADATA_KEY)
           THEN Ran(Store(written, st.metadata), TRUE, FALSE)
           ELSE Ran(Store(written, Some(updatedMetadata)),
                    existingMetadata.failed, FALSE)

\* the loop of clearAllCache: the entries afterwards and whether a remove
\* rejected, which ends the loop
RECURSIVE removeEachUnder(_, _, _)
removeEachUnder(e, rows, fault) ==
  IF rows = <<>> THEN [entries |-> e, failed |-> FALSE]
  ELSE IF Fails(fault, "removeItem", Head(rows).key)
       THEN [entries |-> e, failed |-> TRUE]
       ELSE removeEachUnder([e EXCEPT ![Head(rows).key] = Null],
                            Tail(rows), fault)

\* the catch of clearAllCache logs the error and returns
clearAllCacheUnder(st, fault) ==
  LET metadataRead == readCacheMetadata(st, fault)
      loop == removeEachUnder(st.entries, metadataRead.rows, fault)
  IN  IF loop.failed
      THEN Ran(Store(loop.entries, st.metadata), TRUE, FALSE)
      ELSE IF Fails(fault, "removeItem", CACHE_METADATA_KEY)
           THEN Ran(Store(loop.entries, st.metadata), TRUE, FALSE)
           ELSE Ran(Store(loop.entries, Null), metadataRead.failed, FALSE)

\* the alert of the settings screen after clearAllCache
ClearCacheAlert(raised) ==
  IF raised THEN "Failed to clear cache" ELSE "Cache cleared successfully!"

\* getHistory catches the rejection of its read and returns []
getHistoryUnder(h, fault) ==
  IF Fails(fault, "getItem", HISTORY_STORAGE_KEY)
  THEN [items |-> <<>>, failed |-> TRUE]
  ELSE [items |-> h, failed |-> FALSE]

\* the result is the stored log afterwards
addToHistoryUnder(h, url, readingTime, category, t, fault) ==
  LET read == getHistoryUnder(h, fault)
      updated == addToHistory(read.items, url, readingTime, category, t)
  IN  IF Fails(fault, "setItem", HISTORY_STORAGE_KEY)
      THEN Ran(h, TRUE, FALSE)
      ELSE Ran(updated, read.failed, FALSE)

\* last is the last handler, the call that rejected in it (NoFault when none
\* did), whether the service call threw, and the alert shown
FOp(op, fault, raised, alert) ==
  [op |-> op, fault |-> fault, raised |-> raised, alert |-> alert]

Injected(fault, r) == IF r.failed THEN fault ELSE NoFault

FaultInit ==
  /\ now = 0
  /\ EmptyCache
  /\ last = FOp("init", NoFault, FALSE, "")
  /\ tz = "fixed"
  /\ history = <<>>
  /\ stats = Null
  /\ tasks = <<>>
  /\ ui = Null

FCacheArticles ==
  \E key \in PageOneKeys, data \in Payloads, fault \in Faults :
    LET r == cacheArticlesUnder(Cur, key, data, key, now, fault)
    IN  /\ entries' = r.st.entries
        /\ metadata' = r.st.metadata
        /\ last' = FOp("cacheArticles", Injected(fault, r), r.raised, "")
        /\ UNCHANGED <<now, tz, history, stats, tasks, ui>>

HandleClearCache ==
  \E fault \in Faults :
    LET r == clearAllCacheUnder(Cur, fault)
    IN  /\ entries' = r.st.entries
        /\ metadata' = r.st.metadata
        /\ last' = FOp("handleClearCache", Injected(fault, r), r.raised,
                       ClearCacheAlert(r.raised))
        /\ UNCHANGED <<now, tz, history, stats, tasks, ui>>

FAddToHistory ==
  \E url \in 1..MaxUrls, fault \in Faults :
    LET r == addToHistoryUnder(history, url, 5, "general", now, fault)
    IN  /\ history' = r.st
        /\ last' = FOp("addToHistory", Injected(fault, r), r.raised, "")
        /\ UNCHANGED <<now, tz, entries, metadata, stats, tasks, ui>>

FaultNext ==
  \/ FCacheArticles
  \/ HandleClearCache
  \/ FAddToHistory

SpecFault == FaultInit /\ [][FaultNext]_vars

\* C11: when a storage remove fails during clearAllCache the failure is raised
\* to the caller, and the settings screen reports "Failed to clear cache" and
\* not success.
C11_ClearAllFailureRaised ==
  [][(last'.op = "handleClearCache" /\ last'.fault.op = "removeItem")
       => /\ last'.raised
          /\ last'.alert = "Failed to clear cache"]_vars

\* C12: addToHistory never raises, and when its storage read or write fails
\* the stored reading log is exactly as it was before the call.
C12_RecordBestEffort ==
  [][last'.op = "addToHistory"
       => /\ ~last'.raised
          /\ last'.fault # NoFault => history' = history]_vars

(***************************************************************************)
(* Overlapping cache operations: two callers, each running cacheArticles or *)
(* clearAllCache one AsyncStorage call at a time                            *)
(***************************************************************************)
Callers == {"a", "b"}
Other(c) == CHOOSE d \in Callers : d # c

\* tasks[c] is the operation caller c is in, the AsyncStorage call it issues
\* next, the key it was called with and the index it read
Task(op, pc, key, rows) == [op |-> op, pc |-> pc, key |-> key, rows |-> rows]
IdleTask == Task("idle", "none", <<>>, <<>>)
Quiescent == \A c \in Callers : tasks[c] = IdleTask

\* last.overlaps is the pairs of operations that have run at the same time:
\* the operation begun and the operation the other caller was in
ROp(op, overlaps) == [op |-> op, overlaps |-> overlaps]

Begun(c, op) ==
  last' = ROp(op,
              last.overlaps \cup
                IF tasks[Other(c)].op # "idle"
                THEN {{op, tasks[Other(c)].op}} ELSE {})

\* variant: the index is written back as it was read
updatedMetadata_keepRead(existingMetadata, key, metaKey, t) ==
  existingMetadata

\* the index cacheArticles writes back from the index it read
updatedMetadata(existingMetadata, key, metaKey, t) ==
  LET newMetadata == [key |-> metaKey, timestamp |-> t]
      otherKey(m) == m.key # key
  IN  <<newMetadata>> \o SelectSeq(existingMetadata, otherKey)

RaceInit ==
  /\ now = 0
  /\ EmptyCache
  /\ last = ROp("init", {})
  /\ tz = "fixed"
  /\ history = <<>>
  /\ stats = Null
  /\ tasks = [c \in Callers |-> IdleTask]
  /\ ui = Null

\* cacheArticles up to its first await: the entry is written
PutEntry(c) ==
  /\ tasks[c] = IdleTask
  /\ \E key \in PageOneKeys :
       /\ entries' = [entries EXCEPT ![key] =
                        Some([data |-> 1, timestamp |-> now])]
       /\ tasks' = [tasks EXCEPT ![c] =
                      Task("cacheArticles", "getItem", key, <<>>)]
  /\ Begun(c, "cacheArticles")
  /\ UNCHANGED <<now, metadata, tz, history, stats, ui>>

PutReadIndex(c) ==
  /\ tasks[c].op = "cacheArticles"
  /\ tasks[c].pc = "getItem"
  /\ tasks' = [tasks EXCEPT ![c] =
                 Task("cacheArticles", "setItem", tasks[c].key,
                      getCacheMetadata(Cur))]
  /\ UNCHANGED <<now, entries, metadata, last, tz, history, stats, ui>>

PutWriteIndex(c) ==
  /\ tasks[c].op = "cacheArticles"
  /\ tasks[c].pc = "setItem"
  /\ metadata' = Some(updatedMetadata(tasks[c].rows, tasks[c].key,
                                      tasks[c].key, now))
  /\ tasks' = [tasks EXCEPT ![c] = IdleTask]
  /\ UNCHANGED <<now, entries, last, tz, history, stats, ui>>

\* clearAllCache up to its first await: the index is read
ClearAllReadIndex(c) ==
  /\ tasks[c] = IdleTask
  /\ tasks' = [tasks EXCEPT ![c] =
                 Task("clearAllCache", "removeItem", <<>>,
                      getCacheMetadata(Cur))]
  /\ Begun(c, "clearAllCache")
  /\ UNCHANGED <<now, entries, metadata, tz, history, stats, ui>>

ClearAllRemoveEntry(c) ==
  /\ tasks[c].op = "clearAllCache"
  /\ tasks[c].rows # <<>>
  /\ entries' = [entries EXCEPT ![Head(tasks[c].rows).key] = Null]
  /\ tasks' = [tasks EXCEPT ![c].rows = Tail(tasks[c].rows)]
  /\ UNCHANGED <<now, metadata, last, tz, history, stats, ui>>

ClearAllRemoveIndex(c) ==
  /\ tasks[c].op = "clearAllCache"
  /\ tasks[c].rows = <<>>
  /\ metadata' = Null
  /\ tasks' = [tasks EXCEPT ![c] = IdleTask]
  /\ UNCHANGED <<now, entries, last, tz, history, stats, ui>>

RaceNext ==
  \/ \E c \in Callers : PutEntry(c)
  \/ \E c \in Callers : PutReadIndex(c)
  \/ \E c \in Callers : PutWriteIndex(c)
  \/ \E c \in Callers : ClearAllReadIndex(c)
  \/ \E c \in Callers : ClearAllRemoveEntry(c)
  \/ \E c \in Callers : ClearAllRemoveIndex(c)

SpecRace == RaceInit /\ [][RaceNext]_vars

\* C14: the index and the entries diverge through an interleaving of a put
\* with a clearAll at the granularity of storage calls: once both callers have
\* returned, the keys of the index differ from the keys holding an entry only
\* if two operations have overlapped.
C14_PutClearAllRace ==
  (Quiescent /\ IndexedKeys # StoredKeys) => last.overlaps # {}

\* both callers have returned, the only overlap so far was of a put with a
\* clearAll, and an entry is stored that the index does not list
C14_Witness ==
  /\ Quiescent
  /\ last.overlaps = {{"cacheArticles", "clearAllCache"}}
  /\ StoredKeys \ IndexedKeys # {}

\* C20: after puts that overlapped with each other only, every key holding an
\* entry has a row in the index, so that a clearAll run next removes every
\* entry.
C20_OverlappingPuts ==
  (Quiescent /\ last.overlaps = {{"cacheArticles"}})
    => /\ StoredKeys \subseteq IndexedKeys
       /\ clearAllCache(Cur).entries = [k \in AllKeys |-> Null]

(***************************************************************************)
(* Overlapping addToHistory calls: two callers, each reading the log and    *)
(* writing it back as two AsyncStorage calls                                *)
(***************************************************************************)
\* last.overlaps is the pairs of URLs whose calls have run at the same time:
\* the URL of the call begun and the URL of the call the other caller was in
HBegun(c, url) ==
  last' = ROp("addToHistory",
              last.overlaps \cup
                IF tasks[Other(c)].op # "idle"
                THEN {{url, tasks[Other(c)].key[1]}} ELSE {})

HistoryRaceInit ==
  /\ now = 0
  /\ EmptyCache
  /\ last = ROp("init", {})
  /\ tz = "fixed"
  /\ history = <<>>
  /\ stats = Null
  /\ tasks = [c \in Callers |-> IdleTask]
  /\ ui = Null

\* addToHistory up to the await of getHistory: the log is read
HistoryRead(c) ==
  /\ tasks[c] = IdleTask
  /\ \E url \in 1..MaxUrls :
       /\ tasks' = [tasks EXCEPT ![c] =
                      Task("addToHistory", "setItem", <<url>>, history)]
       /\ HBegun(c, url)
  /\ UNCHANGED <<now, entries, metadata, tz, history, stats, ui>>

\* the rest of addToHistory: the log read is updated and written back
HistoryWrite(c) ==
  /\ tasks[c].op = "addToHistory"
  /\ history' = addToHistory(tasks[c].rows, tasks[c].key[1], 5, "general", now)
  /\ tasks' = [tasks EXCEPT ![c] = IdleTask]
  /\ UNCHANGED <<now, entries, metadata, last, tz, stats, ui>>

HistoryRaceNext ==
  \/ \E c \in Callers : HistoryRead(c)
  \/ \E c \in Callers : HistoryWrite(c)

SpecHistoryRace == HistoryRaceInit /\ [][HistoryRaceNext]_vars

\* C19: when two addToHistory calls have overlapped, each suspended between
\* its read and its write, the log holds an event for the URL of each of them
\* once both have returned.
C19_OverlappingRecords ==
  Quiescent =>
    \A pair \in last.overlaps : \A url \in pair : findIndex(history, url) # 0

(***************************************************************************)
(* HomeScreen: the handlers and the fetches in flight                       *)
(***************************************************************************)
HomeCategories == {"general", "business"}

\* a fetch in flight: the function awaiting newsApi, what it asked for and the
\* page
Request(op, value, page) == Task(op, "await", <<value>>, <<page>>)
RequestValue(r) == r.key[1]
RequestPage(r) == r.rows[1]

\* the articles of one response, named after the request that produced them
Batch(r) == [from |-> RequestValue(r), page |-> RequestPage(r)]

\* the outcome of the newsApi call: <<>> when it throws, <<totalPages>> when it
\* returns a response of Math.ceil(totalResults / 20) pages
Responses == {Null} \cup {Some(n) : n \in 1..MaxPage}

ErrorMessage(op) ==
  IF op = "searchArticles"
  THEN "Failed to search news. Please check your connection."
  ELSE "Failed to fetch news. Please check your connection."

\* last is the handler that issued the most recent request, the caller slot
\* and the request, whether an earlier request was in flight when it was
\* issued, and how it resolved ("pending" until then)
HomeOp(op, latest, request, overlapped, outcome) ==
  [op |-> op, latest |-> latest, request |-> request,
   overlapped |-> overlapped, outcome |-> outcome]

\* fetchArticles / searchArticles up to the await of newsApi
Issue(c, handler, op, value, page, isRefreshing, screen) ==
  /\ tasks[c] = IdleTask
  /\ tasks' = [tasks EXCEPT ![c] = Request(op, value, page)]
  /\ ui' = [screen EXCEPT !.loading = IF isRefreshing THEN @ ELSE TRUE,
                          !.error = Null]
  /\ last' = HomeOp(handler, c, Request(op, value, page),
                    tasks[Other(c)] # IdleTask, "pending")
  /\ UNCHANGED <<now, entries, metadata, tz, history, stats>>

\* the useState initial values of the screen
InitialScreen ==
  [selectedCategory |-> "general", articles |-> <<>>,
   loading |-> TRUE, refreshing |-> FALSE, error |-> Null,
   searchQuery |-> "", isSearchMode |-> FALSE, currentPage |-> 1,
   loadingMore |-> FALSE, hasMore |-> TRUE]

\* the screen after mounting: the category effect has called
\* fetchArticles('general')
HomeInit ==
  /\ now = 0
  /\ EmptyCache
  /\ tz = "fixed"
  /\ history = <<>>
  /\ stats = Null
  /\ ui = InitialScreen
  /\ tasks = [c \in Callers |->
                IF c = "a" THEN Request("fetchArticles", "general", 1)
                ELSE IdleTask]
  /\ last = HomeOp("mount", "a", Request("fetchArticles", "general", 1),
                   FALSE, "pending")

\* the category effect runs when selectedCategory or isSearchMode changed and
\* the screen is not in search mode
HandleCategorySelect ==
  \E category \in HomeCategories :
    LET screen == [ui EXCEPT !.selectedCategory = category,
                             !.isSearchMode = FALSE,
                             !.searchQuery = "",
                             !.currentPage = 1,
                             !.hasMore = TRUE]
    IN  IF category # ui.selectedCategory \/ ui.isSearchMode
        THEN \E c \in Callers :
               Issue(c, "handleCategorySelect", "fetchArticles", category, 1,
                     FALSE, screen)
        ELSE /\ ui' = screen
             /\ UNCHANGED <<now, entries, metadata, last, tz, history, stats,
                            tasks>>

HandleSearch ==
  \E query \in Queries, c \in Callers :
    Issue(c, "handleSearch", "searchArticles", query, 1, FALSE,
          [ui EXCEPT !.searchQuery = query,
                     !.isSearchMode = TRUE,
                     !.currentPage = 1,
                     !.hasMore = TRUE])

\* the clear button of the search bar: the handler calls fetchArticles, and
\* the category effect calls it again because isSearchMode changed
HandleClearSearch ==
  /\ ui.isSearchMode
  /\ Quiescent
  /\ LET request == Request("fetchArticles", ui.selectedCategory, 1)
     IN  /\ tasks' = [c \in Callers |-> request]
         /\ last' = HomeOp("handleClearSearch", "b", request, TRUE, "pending")
  /\ ui' = [ui EXCEPT !.searchQuery = "",
                      !.isSearchMode = FALSE,
                      !.currentPage = 1,
                      !.hasMore = TRUE,
                      !.loading = TRUE,
                      !.error = Null]
  /\ UNCHANGED <<now, entries, metadata, tz, history, stats>>

\* the function and value handleRefresh, handleRetry and handleLoadMore fetch
CurrentOp == IF ui.isSearchMode /\ ui.searchQuery # ""
             THEN "searchArticles" ELSE "fetchArticles"
CurrentValue == IF ui.isSearchMode /\ ui.searchQuery # ""
                THEN ui.searchQuery ELSE ui.selectedCategory

HandleRefresh ==
  \E c \in Callers :
    Issue(c, "handleRefresh", CurrentOp, CurrentValue, 1, TRUE,
          [ui EXCEPT !.refreshing = TRUE,
                     !.currentPage = 1,
                     !.hasMore = TRUE])

\* the retry button of the error view
HandleRetry ==
  /\ ui.error # Null
  /\ \E c \in Callers :
       Issue(c, "handleRetry", CurrentOp, CurrentValue, 1, FALSE,
             [ui EXCEPT !.currentPage = 1, !.hasMore = TRUE])

HandleLoadMore ==
  /\ ~ui.loadingMore /\ ui.hasMore /\ ~ui.loading /\ ui.error = Null
  /\ ui.currentPage + 1 <= MaxPage
  /\ Len(ui.articles) < MaxPage
  /\ \E c \in Callers :
       Issue(c, "handleLoadMore", CurrentOp, CurrentValue,
             ui.currentPage + 1, FALSE, [ui EXCEPT !.loadingMore = TRUE])

\* variant: a failure of any page empties the list
Settled_emptyOnError(screen, r, response) ==
  LET page == RequestPage(r)
      applied ==
        IF response # Null
        THEN [screen EXCEPT
                !.articles = IF page = 1 THEN <<Batch(r)>>
                             ELSE @ \o <<Batch(r)>>,
                !.currentPage = page,
                !.hasMore = page < response[1]]
        ELSE [screen EXCEPT
                !.error = Some(ErrorMessage(r.op)),
                !.articles = <<>>]
  IN  [applied EXCEPT !.loading = FALSE, !.refreshing = FALSE,
                      !.loadingMore = FALSE]

\* the rest of fetchArticles / searchArticles once newsApi has settled
Settled(screen, r, response) ==
  LET page == RequestPage(r)
      applied ==
        IF response # Null
        THEN [screen EXCEPT
                !.articles = IF page = 1 THEN <<Batch(r)>>
                             ELSE @ \o <<Batch(r)>>,
                !.currentPage = page,
                !.hasMore = page < response[1]]
        ELSE [screen EXCEPT
                !.error = Some(ErrorMessage(r.op)),
                !.articles = IF page = 1 THEN <<>> ELSE @]
  IN  [applied EXCEPT !.loading = FALSE, !.refreshing = FALSE,
                      !.loadingMore = FALSE]

Resolve ==
  \E c \in Callers, response \in Responses :
    /\ tasks[c] # IdleTask
    /\ ui' = Settled(ui, tasks[c], response)
    /\ tasks' = [tasks EXCEPT ![c] = IdleTask]
    /\ last' = IF c = last.latest
               THEN [last EXCEPT !.outcome =
                       IF response # Null THEN "ok" ELSE "error"]
               ELSE last
    /\ UNCHANGED <<now, entries, metadata, tz, history, stats>>

HomeNext ==
  \/ HandleCategorySelect
  \/ HandleSearch
  \/ HandleClearSearch
  \/ HandleRefresh
  \/ HandleRetry
  \/ HandleLoadMore
  \/ Resolve

SpecHome == HomeInit /\ [][HomeNext]_vars

\* the most recent request was issued by selecting a category or starting a
\* search while an earlier fetch was in flight
SupersededEarlier(l) ==
  /\ l.op \in {"handleCategorySelect", "handleSearch"}
  /\ l.overlapped

\* C13: when a category is selected or a search is started while an earlier
\* fetch is in flight, the earlier fetch changes neither the articles, the
\* page number nor the error when it resolves, and once both have resolved
\* the articles, the page number and the error are those of the most recent
\* request.
C13_StaleResultsDropped ==
  [][/\ (/\ SupersededEarlier(last)
         /\ tasks[Other(last.latest)] # IdleTask
         /\ tasks'[Other(last.latest)] = IdleTask)
          => /\ ui'.articles = ui.articles
             /\ ui'.currentPage = ui.currentPage
             /\ ui'.error = ui.error
     /\ (/\ SupersededEarlier(last')
         /\ \A c \in Callers : tasks'[c] = IdleTask)
          => /\ ui'.currentPage = 1
             /\ IF last'.outcome = "ok"
                THEN /\ ui'.articles = <<Batch(last'.request)>>
                     /\ ui'.error = Null
                ELSE /\ ui'.articles = <<>>
                     /\ ui'.error = Some(ErrorMessage(last'.request.op))]_vars

\* the step issues a request from the given handler
Issued(handler) ==
  /\ last' # last
  /\ last'.op = handler
  /\ last'.outcome = "pending"

MaxAwait == 1

\* t is the clock when the entry is built, u the clock when the row is built
cacheArticlesAt(st, key, data, metaKey, t, u) ==
  LET written == Store([st.entries EXCEPT ![key] =
                          Some([data |-> data, timestamp |-> t])],
                       st.metadata)
      existingMetadata == getCacheMetadata(written)
  IN  Store(written.entries,
            Some(updatedMetadata(existingMetadata, key, metaKey, u)))

\* the clock advances by elapsed while cacheArticles awaits
ClockCacheArticles ==
  \E key \in PageOneKeys, elapsed \in 0..MaxAwait :
    LET st == cacheArticlesAt(Cur, key, 1, key, now, now + elapsed)
    IN  /\ now + elapsed <= MaxTime
        /\ now' = now + elapsed
        /\ entries' = st.entries
        /\ metadata' = st.metadata
        /\ last' = Op("cacheArticles", key, 1, Some(1), TRUE, "ok", Null, {})
        /\ UNCHANGED <<tz, history, stats, tasks, ui>>

ClockNext ==
  \/ Tick
  \/ ClockCacheArticles
  \/ GetCachedArticles
  \/ ClearExpiredCache

SpecClock == CacheInit /\ [][ClockNext]_vars

\* C22: for every key that holds an entry, clearExpired removes the key at
\* the current time exactly when get treats it as expired, and the timestamp
\* of its index row is the timestamp of its entry.
C22_ExpiryAgreement ==
  \A k \in StoredKeys :
    /\ (clearExpiredCache(Cur, now).entries[k] = Null)
         <=> (getCachedArticles(Cur, k, now).data = Null)
    /\ \A i \in 1..Len(Rows) :
         Rows[i].key = k => Rows[i].timestamp = entries[k][1].timestamp

(***************************************************************************)
(* HomeScreen over newsApi and the cache, one fetch at a time               *)
(***************************************************************************)
\* fetchArticles / searchArticles from the call to the end of finally; the
\* screen calls newsApi with (value, page), so useCache has its default, true.
\* The payload of the response is its number of pages.
FetchThrough(handler, op, value, page, isRefreshing, screen, net) ==
  LET r == IF op = "searchArticles"
           THEN searchNews(Cur, value, page, TRUE, net, now)
           ELSE getTopHeadlines(Cur, value, page, TRUE, net, now)
      key == IF op = "searchArticles"
             THEN SearchKey(value, page) ELSE CategoryKey(value, page)
      issued == [screen EXCEPT !.loading = IF isRefreshing THEN @ ELSE TRUE,
                               !.error = Null]
  IN  /\ entries' = r.st.entries
      /\ metadata' = r.st.metadata
      /\ ui' = Settled(issued, Request(op, value, page),
                       IF r.outcome = "ok" THEN r.data ELSE Null)
      /\ last' = Op(handler, key, page, net, r.netCalled, r.outcome, r.data,
                    Removed(r.st))
      /\ UNCHANGED <<now, tz, history, stats, tasks>>

ScreenInit ==
  /\ now = 0
  /\ EmptyCache
  /\ last = NoOp("init")
  /\ tz = "fixed"
  /\ history = <<>>
  /\ stats = Null
  /\ tasks = <<>>
  /\ ui = InitialScreen

ScreenTick ==
  \E d \in TickSteps :
    /\ last.op # "init"
    /\ now + d <= MaxTime
    /\ now' = now + d
    /\ last' = NoOp("tick")
    /\ UNCHANGED <<entries, metadata, tz, history, stats, tasks, ui>>

\* the category effect on mount
ScreenMount ==
  /\ last.op = "init"
  /\ \E net \in NetResults :
       FetchThrough("mount", "fetchArticles", ui.selectedCategory, 1, FALSE,
                    ui, net)

ScreenSearch ==
  \E query \in Queries, net \in NetResults :
    /\ last.op # "init"
    /\ FetchThrough("handleSearch", "searchArticles", query, 1, FALSE,
                    [ui EXCEPT !.searchQuery = query,
                               !.isSearchMode = TRUE,
                               !.currentPage = 1,
                               !.hasMore = TRUE],
                    net)

\* selecting a category in search mode: the category effect fetches it
ScreenCategorySelect ==
  \E category \in Categories, net \in NetResults :
    /\ last.op # "init"
    /\ ui.isSearchMode
    /\ FetchThrough("handleCategorySelect", "fetchArticles", category, 1,
                    FALSE,
                    [ui EXCEPT !.selectedCategory = category,
                               !.isSearchMode = FALSE,
                               !.searchQuery = "",
                               !.currentPage = 1,
                               !.hasMore = TRUE],
                    net)

ScreenRefresh ==
  \E net \in NetResults :
    /\ last.op # "init"
    /\ FetchThrough("handleRefresh", CurrentOp, CurrentValue, 1, TRUE,
                    [ui EXCEPT !.refreshing = TRUE,
                               !.currentPage = 1,
                               !.hasMore = TRUE],
                    net)

ScreenNext ==
  \/ ScreenTick
  \/ ScreenMount
  \/ ScreenSearch
  \/ ScreenCategorySelect
  \/ ScreenRefresh

SpecScreen == ScreenInit /\ [][ScreenNext]_vars

\* the key of page 1 of what the screen shows
CurrentKey ==
  IF CurrentOp = "searchArticles"
  THEN SearchKey(CurrentValue, 1) ELSE CategoryKey(CurrentValue, 1)

\* C23: a pull-to-refresh issues a network request for page 1 of the current
\* category or search, also when an entry younger than 24 hours is cached for
\* it.
C23_RefreshReachesNetwork ==
  [][last'.op = "handleRefresh"
       => /\ last'.key = CurrentKey
          /\ last'.page = 1
          /\ last'.netCalled]_vars

(***************************************************************************)
(* getStats on histories whose events lie at the edges of the day, week and *)
(* month windows                                                            *)
(***************************************************************************)
\* the windows of getStats and getReadingByDay
Windows == {24, 7 * 24, 30 * 24}

\* the ages of the events: now, and one hour inside, at and outside the edge
\* of each window
BoundaryAges == {0} \cup {w + d : w \in Windows, d \in {-1, 0, 1}}

\* the clock at hours 0, 12 and 23 of a day more than a month after day 0
WindowNows == {24 * 31 + hour : hour \in NowHours}

WindowInit ==
  /\ EmptyCache
  /\ last = HOp("init", 0, 0, Null, 0)
  /\ tz = "fixed"
  /\ now \in WindowNows
  /\ \E A \in SUBSET BoundaryAges :
       /\ Cardinality(A) <= MaxEvents
       /\ history = LogOf({now - a : a \in A})
  /\ stats = Null
  /\ tasks = <<>>
  /\ ui = Null

WindowNext == GetStats

SpecWindows == WindowInit /\ [][WindowNext]_vars

\* the number of events recorded less than the given time before now
Younger(elapsed) ==
  Cardinality({i \in 1..Len(history) : now - history[i].readAt < elapsed})

\* C28: the today, week and month counts of the snapshot are the numbers of
\* events recorded less than 24 hours, 7 x 24 hours and 30 x 24 hours before
\* now, whatever their calendar day, and today <= week <= month <= total.
C28_SlidingWindows ==
  StatsReturned =>
    /\ Snapshot.articlesReadToday = Younger(24)
    /\ Snapshot.articlesReadThisWeek = Younger(7 * 24)
    /\ Snapshot.articlesReadThisMonth = Younger(30 * 24)
    /\ Snapshot.articlesReadToday <= Snapshot.articlesReadThisWeek
    /\ Snapshot.articlesReadThisWeek <= Snapshot.articlesReadThisMonth
    /\ Snapshot.articlesReadThisMonth <= Snapshot.totalArticlesRead

\* the today count holds an event of yesterday's calendar day and leaves out
\* an event recorded exactly 24 hours ago, and the four counts differ
C28_Witness ==
  /\ StatsReturned
  /\ \E i \in 1..Len(history) :
       /\ getDateKey(tz, history[i].readAt) # Today
       /\ now - history[i].readAt < 24
  /\ \E i \in 1..Len(history) : now - history[i].readAt = 24
  /\ Snapshot.articlesReadToday = 2
  /\ Snapshot.articlesReadToday < Snapshot.articlesReadThisWeek
  /\ Snapshot.articlesReadThisWeek < Snapshot.articlesReadThisMonth
  /\ Snapshot.articlesReadThisMonth < Snapshot.totalArticlesRead

====
